---- MODULE Spec2Model ----
(***************************************************************************)
(* Wallet / history persistence layer of the FastAPI wallet service.       *)
(*                                                                         *)
(* State: the committed content of database.db (tables wallets and         *)
(* histories), one caller-controlled transaction over the repository, and  *)
(* the record of the last operation with its outcome.                      *)
(*                                                                         *)
(* Operations: the methods of WalletRepository (repositories/wallet.py),   *)
(* the history use cases (api/wallets/histories/use_cases.py), the wallet  *)
(* use cases (module api/wallets/use_case.py is not part of the sources    *)
(* at hand and is taken from the specification), and Wallet.balance        *)
(* (models.py).                                                            *)
(***************************************************************************)
EXTENDS Integers, Sequences, FiniteSets, TLC

VARIABLES
    db,     \* committed tables: [w : wallet_id -> name, h : history_id -> row]
    pre,    \* the committed tables before the last operation (for a commit: at begin)
    sess,   \* the caller-controlled transaction of the repository calls
            \* (under ConcurrentSpec: the process of each of the two requests)
    last    \* the last operation: its name, arguments and outcome

vars == <<db, pre, sess, last>>

----------------------------------------------------------------------------
(* Bounds of the model *)

MaxWallets == 2
MaxHistories == 2
MaxLen == 3

WalletIds == 1..MaxWallets
HistoryIds == 1..MaxHistories

(* Values the arguments are drawn from *)
Names == {"a", "b"}

\* name, amount, type and history_at given to CreateHistory and UpdateHistory
HistoryInputs ==
    {[name |-> "b", amount |-> 2, type |-> "INCOME", history_at |-> 1],
     [name |-> "a", amount |-> 3, type |-> "OUTCOME", history_at |-> 2],
     [name |-> "b", amount |-> 0, type |-> "INCOME", history_at |-> 2],
     [name |-> "a", amount |-> 0 - 1, type |-> "OUTCOME", history_at |-> 1]}

\* the same, given to the repository directly
RepoInputs == {x \in HistoryInputs : x.name = "b"}

----------------------------------------------------------------------------
(* Domain model: models.py *)

HistoryType == {"INCOME", "OUTCOME"}

\* class History: the fields of a history entity / of a row of table histories
History(history_id, name, amount, type, history_at, wallet_id) ==
    [history_id |-> history_id, name |-> name, amount |-> amount,
     type |-> type, history_at |-> history_at, wallet_id |-> wallet_id]

\* class Wallet
Wallet(wallet_id, name, histories) ==
    [wallet_id |-> wallet_id, name |-> name, histories |-> histories]

\* The term with the sign of an outcome lost
SignedAmount_unsigned(h) == h.amount

\* One term of the sum in Wallet.balance
SignedAmount(h) == IF h.type = "INCOME" THEN h.amount ELSE 0 - h.amount

\* Wallet.balance: sum(h.amount if h.type == INCOME else -h.amount for h in histories)
RECURSIVE balance(_)
balance(histories) ==
    IF histories = <<>> THEN 0
    ELSE SignedAmount(Head(histories)) + balance(Tail(histories))

\* BaseModel.model_config = ConfigDict(from_attribute=True): the key pydantic
\* reads is from_attributes; the key written is not it, so from_attributes
\* keeps its default.
ConfigKeys == {"from_attribute"}
from_attributes == "from_attributes" \in ConfigKeys

----------------------------------------------------------------------------
(* Outcomes of calls.  ret is <<>> for None and <<v>> for a value v. *)

Return(s, v) == [s |-> s, exc |-> "none", res |-> "", rid |-> 0, ret |-> <<v>>]
ReturnNone(s) == [s |-> s, exc |-> "none", res |-> "", rid |-> 0, ret |-> <<>>]
Raise(s, e) == [s |-> s, exc |-> e, res |-> "", rid |-> 0, ret |-> <<>>]
\* exceptions.py: NotFound(resource, resource_id), details = {resource: resource_id}
NotFound(s, resource, resource_id) ==
    [s |-> s, exc |-> "NotFound", res |-> resource, rid |-> resource_id, ret |-> <<>>]

\* BaseModel.model_validate(orm_object): only with from_attributes may the input
\* be an object that is neither a dict nor an instance of the model
model_validate(s, entity) ==
    IF from_attributes THEN Return(s, entity) ELSE Raise(s, "ValidationError")

\* Python call binding: a keyword that is not a parameter is a TypeError
Binds(params, keywords) == keywords \subseteq params

----------------------------------------------------------------------------
(* Storage: database.py and the ORM classes of repositories/wallet.py *)

Restrict(f, S) == [i \in S |-> f[i]]

\* mapped_column(primary_key=True) on SQLite: the next rowid
NewId(table) ==
    IF DOMAIN table = {} THEN 1
    ELSE (CHOOSE m \in DOMAIN table : \A i \in DOMAIN table : i <= m) + 1

\* create_async_engine("sqlite+aiosqlite:///database.db"): no PRAGMA foreign_keys
\* is issued, so SQLite does not enforce the foreign key of histories.wallet_id
foreign_keys == FALSE

\* The column without its check
CheckConstraint_missing(row) == TRUE

\* HistoryORM.amount: CheckConstraint("amount > 0")
CheckConstraint(row) == row.amount > 0

\* Constraints a flushed row of histories must meet
RowAccepted(s, row) ==
    /\ CheckConstraint(row)
    /\ foreign_keys => row.wallet_id \in DOMAIN s.w

\* A session: its view of the tables and the objects marked deleted
\* (AsyncSessionLocal, autoflush=False: marks are written by flush or commit)
NewSession(d) == [w |-> d.w, h |-> d.h, delW |-> {}, delH |-> {}]

\* A flush that deletes the wallet rows only: the relationship without
\* "delete" in its cascade
flush_without_cascade(s) ==
    [w |-> Restrict(s.w, DOMAIN s.w \ s.delW),
     h |-> Restrict(s.h, DOMAIN s.h \ s.delH),
     delW |-> {}, delH |-> {}]

\* session.flush(): write the pending deletes; WalletORM.histories cascades
\* "delete, delete-orphan" to the histories of a deleted wallet
flush(s) ==
    LET gone == s.delH \cup {i \in DOMAIN s.h : s.h[i].wallet_id \in s.delW}
    IN  [w |-> Restrict(s.w, DOMAIN s.w \ s.delW),
         h |-> Restrict(s.h, DOMAIN s.h \ gone),
         delW |-> {}, delH |-> {}]

Tables(s) == [w |-> s.w, h |-> s.h]

\* The histories of a wallet in the order of the relationship:
\* order_by=HistoryORM.history_at.desc() (ties by history_id)
Before(s, i, j) ==
    \/ s.h[i].history_at > s.h[j].history_at
    \/ s.h[i].history_at = s.h[j].history_at /\ i < j

RECURSIVE Ordered(_, _)
Ordered(s, ids) ==
    IF ids = {} THEN <<>>
    ELSE LET i == CHOOSE i \in ids : \A j \in ids \ {i} : Before(s, i, j)
         IN  <<i>> \o Ordered(s, ids \ {i})

\* Rows in the order of the primary key
RECURSIVE Ascending(_)
Ascending(ids) ==
    IF ids = {} THEN <<>>
    ELSE LET i == CHOOSE i \in ids : \A j \in ids : i <= j
         IN  <<i>> \o Ascending(ids \ {i})

HistoryEntity(s, i) ==
    History(i, s.h[i].name, s.h[i].amount, s.h[i].type, s.h[i].history_at,
            s.h[i].wallet_id)

\* selectinload(WalletORM.histories)
histories_of(s, wallet_id) ==
    LET ids == Ordered(s, {i \in DOMAIN s.h : s.h[i].wallet_id = wallet_id})
    IN  [k \in 1..Len(ids) |-> HistoryEntity(s, ids[k])]

\* HistoryORM.to_entity
History_to_entity(s, entity) == model_validate(s, entity)

\* WalletORM.to_entity
Wallet_to_entity(s, entity) == model_validate(s, entity)

\* WalletORM: the attributes the declarative constructor accepts as keywords
WalletORM_attributes == {"wallet_id", "name", "histories"}

\* HistoryORM.update: name, amount, type, wallet_id, history_at
HistoryORM_update(row, history) ==
    [name |-> history.name, amount |-> history.amount, type |-> history.type,
     wallet_id |-> history.wallet_id, history_at |-> history.history_at]

----------------------------------------------------------------------------
(* WalletRepository: repositories/wallet.py.  Each method takes the session  *)
(* s of its caller and yields the session after it and its outcome.          *)

\* add: WalletORM(name=name, history=[]); session.add; flush; to_entity
add(s, name) ==
    IF ~Binds(WalletORM_attributes, {"name", "history"}) THEN Raise(s, "TypeError")
    ELSE LET id == NewId(s.w)
             s1 == flush([s EXCEPT !.w = (id :> name) @@ s.w])
         IN  Wallet_to_entity(s1, Wallet(id, name, <<>>))

\* get_by_id: select the wallet with its histories; None if absent
get_by_id(s, wallet_id) ==
    IF wallet_id \notin DOMAIN s.w THEN ReturnNone(s)
    ELSE Wallet_to_entity(s, Wallet(wallet_id, s.w[wallet_id], histories_of(s, wallet_id)))

\* get_all: [wallet.to_entity() for wallet in select(WalletORM)]
get_all(s) ==
    LET ids == Ascending(DOMAIN s.w)
    IN  IF ids = <<>> THEN Return(s, <<>>)
        ELSE Wallet_to_entity(s, [k \in 1..Len(ids) |->
                 Wallet(ids[k], s.w[ids[k]], histories_of(s, ids[k]))])

\* add_history: AppException if the wallet is absent; append the row; flush; to_entity
add_history(s, wallet_id, name, amount, type_, history_at) ==
    IF wallet_id \notin DOMAIN s.w THEN Raise(s, "AppException")
    ELSE LET id == NewId(s.h)
             row == [name |-> name, amount |-> amount, type |-> type_,
                     wallet_id |-> wallet_id, history_at |-> history_at]
         IN  IF ~RowAccepted(s, row) THEN Raise(s, "IntegrityError")
             ELSE History_to_entity(flush([s EXCEPT !.h = (id :> row) @@ s.h]),
                      History(id, name, amount, type_, history_at, wallet_id))

\* update with the histories of the row replaced by those of the given Wallet
\* value: the rows it does not list are orphans, deleted by the flush
update_replacing_histories(s, wallet) ==
    IF wallet.wallet_id \notin DOMAIN s.w THEN Raise(s, "AppException")
    ELSE LET listed == {wallet.histories[k].history_id : k \in 1..Len(wallet.histories)}
             orphans == {i \in DOMAIN s.h :
                            s.h[i].wallet_id = wallet.wallet_id /\ i \notin listed}
         IN  Wallet_to_entity(
                 flush([s EXCEPT !.w[wallet.wallet_id] = wallet.name,
                                 !.delH = @ \cup orphans]),
                 Wallet(wallet.wallet_id, wallet.name, wallet.histories))

\* update: AppException if the wallet is absent; WalletORM.update sets the name
\* and reassigns the loaded histories; flush; to_entity
update(s, wallet) ==
    IF wallet.wallet_id \notin DOMAIN s.w THEN Raise(s, "AppException")
    ELSE Wallet_to_entity(flush([s EXCEPT !.w[wallet.wallet_id] = wallet.name]),
             Wallet(wallet.wallet_id, wallet.name, histories_of(s, wallet.wallet_id)))

\* delete: session.delete(wallet_) if the wallet is there; no flush
delete(s, wallet) ==
    IF wallet.wallet_id \in DOMAIN s.w
    THEN ReturnNone([s EXCEPT !.delW = @ \cup {wallet.wallet_id}])
    ELSE ReturnNone(s)

\* The selection by history_id alone
select_history_any_wallet(s, wallet_id, history_id) == history_id \in DOMAIN s.h

\* where(HistoryORM.wallet_id == wallet_id, HistoryORM.history_id == history_id)
select_history(s, wallet_id, history_id) ==
    /\ history_id \in DOMAIN s.h
    /\ s.h[history_id].wallet_id = wallet_id

\* get_history_by_id: the history of that id in that wallet; None if there is none
get_history_by_id(s, wallet_id, history_id) ==
    IF ~select_history(s, wallet_id, history_id) THEN ReturnNone(s)
    ELSE History_to_entity(s, HistoryEntity(s, history_id))

\* update_history raising NotFound for the history it does not select
update_history_raising_NotFound(s, wallet_id, history) ==
    IF ~select_history(s, wallet_id, history.history_id)
    THEN NotFound(s, "history", history.history_id)
    ELSE LET row == HistoryORM_update(s.h[history.history_id], history)
         IN  IF ~RowAccepted(s, row) THEN Raise(s, "IntegrityError")
             ELSE History_to_entity(flush([s EXCEPT !.h[history.history_id] = row]),
                      History(history.history_id, row.name, row.amount, row.type,
                              row.history_at, row.wallet_id))

\* update_history: AppException if (wallet_id, history.history_id) selects nothing;
\* HistoryORM.update; flush; to_entity
update_history(s, wallet_id, history) ==
    IF ~select_history(s, wallet_id, history.history_id) THEN Raise(s, "AppException")
    ELSE LET row == HistoryORM_update(s.h[history.history_id], history)
         IN  IF ~RowAccepted(s, row) THEN Raise(s, "IntegrityError")
             ELSE History_to_entity(flush([s EXCEPT !.h[history.history_id] = row]),
                      History(history.history_id, row.name, row.amount, row.type,
                              row.history_at, row.wallet_id))

\* delete_history: session.delete(history_) if it is there; no flush
delete_history(s, wallet_id, history) ==
    IF select_history(s, wallet_id, history.history_id)
    THEN ReturnNone([s EXCEPT !.delH = @ \cup {history.history_id}])
    ELSE ReturnNone(s)

----------------------------------------------------------------------------
(* Transaction scopes: database.py *)

\* get_session yields AsyncSessionLocal: what a use case holds as self.session
self_session == "async_sessionmaker"

\* self.session(): the sessionmaker called yields an AsyncSession
Call(x) == IF x = "async_sessionmaker" THEN "AsyncSession" ELSE "TypeError"

\* self.session.begin(): a session whose transaction commits on a normal exit
\* of the block and rolls back on an exception
begin(x) == IF x = "async_sessionmaker" THEN "AsyncSessionTransaction" ELSE "TypeError"

\* What a use case leaves when its block has been left, by a return or by an
\* exception: the committed tables, its result, and no scope open (__aexit__
\* has closed the session that was entered, if one was)
Outcome(d, r) ==
    [db |-> d, exc |-> r.exc, res |-> r.res, rid |-> r.rid, ret |-> r.ret,
     open |-> FALSE]

\* async with cm as session: <body>, where r is what the body does on a new
\* session over the committed tables d.
\*   an AsyncSession closes on exit and commits nothing;
\*   a begin() block commits unless the body raised;
\*   an async_sessionmaker is no asynchronous context manager: TypeError,
\*   and the body does not run.
async_with(cm, d, r) ==
    IF cm = "AsyncSession" THEN Outcome(d, r)
    ELSE IF cm = "AsyncSessionTransaction"
         THEN IF r.exc = "none" THEN Outcome(Tables(flush(r.s)), r) ELSE Outcome(d, r)
         ELSE Outcome(d, Raise(NewSession(d), "TypeError"))

----------------------------------------------------------------------------
(* History use cases: api/wallets/histories/use_cases.py *)

\* ListHistories.execute
ListHistories_execute(d, wallet_id) ==
    LET s == NewSession(d)
        wallet == get_by_id(s, wallet_id)
        body == IF wallet.exc # "none" THEN wallet
                ELSE IF wallet.ret = <<>> THEN NotFound(s, "wallet", wallet_id)
                ELSE Return(wallet.s, wallet.ret[1].histories)
    IN  async_with(Call(self_session), d, body)

\* GetHistory.execute
GetHistory_execute(d, wallet_id, history_id) ==
    LET s == NewSession(d)
        history == get_history_by_id(s, wallet_id, history_id)
        body == IF history.exc # "none" THEN history
                ELSE IF history.ret = <<>> THEN NotFound(s, "history", history_id)
                ELSE history
    IN  async_with(Call(self_session), d, body)

\* The parameters of WalletRepository.add_history after session and wallet_id
add_history_parameters == {"name", "amount", "type_", "history_at"}

\* CreateHistory.execute: add_history is called with name=, amount=, type=, history_at=
CreateHistory_execute(d, wallet_id, name, amount, type_, history_at) ==
    LET s == NewSession(d)
        wallet == get_by_id(s, wallet_id)
        history == add_history(wallet.s, wallet.ret[1].wallet_id, name, amount,
                               type_, history_at)
        body == IF wallet.exc # "none" THEN wallet
                ELSE IF wallet.ret = <<>> THEN NotFound(s, "wallet", wallet_id)
                ELSE IF ~Binds(add_history_parameters,
                               {"name", "amount", "type", "history_at"})
                     THEN Raise(wallet.s, "TypeError")
                ELSE history
    IN  async_with(self_session, d, body)

\* UpdateHistory.excute in a scope that commits each flush: the row written by
\* update_history stays when the conversion after the flush raises
UpdateHistory_committing_each_flush(d, wallet_id, history_id, name, amount, type_, history_at) ==
    LET s == NewSession(d)
        row == [name |-> name, amount |-> amount, type |-> type_,
                wallet_id |-> wallet_id, history_at |-> history_at]
    IN  IF ~select_history(s, wallet_id, history_id)
        THEN Outcome(d, NotFound(s, "history", history_id))
        ELSE IF ~RowAccepted(s, row) THEN Outcome(d, Raise(s, "IntegrityError"))
        ELSE Outcome([d EXCEPT !.h[history_id] = row], Raise(s, "ValidationError"))

\* UpdateHistory.excute
UpdateHistory_excute(d, wallet_id, history_id, name, amount, type_, history_at) ==
    LET s == NewSession(d)
        history == get_history_by_id(s, wallet_id, history_id)
        changed == [history.ret[1] EXCEPT !.name = name, !.amount = amount,
                                          !.type = type_, !.history_at = history_at]
        updated == update_history(history.s, wallet_id, changed)
        body == IF history.exc # "none" THEN history
                ELSE IF history.ret = <<>> THEN NotFound(s, "history", history_id)
                ELSE IF updated.exc # "none" THEN updated
                ELSE Return(updated.s, changed)
    IN  async_with(self_session, d, body)

\* DeleteHistory.excute
DeleteHistory_excute(d, wallet_id, history_id) ==
    LET s == NewSession(d)
        history == get_history_by_id(s, wallet_id, history_id)
        body == IF history.exc # "none" THEN history
                ELSE IF history.ret = <<>> THEN ReturnNone(s)
                ELSE delete_history(history.s, history.ret[1].wallet_id, history.ret[1])
    IN  async_with(self_session, d, body)

\* MoveHistory.execute with the write ahead of the destination check, in a
\* block that commits what was written
MoveHistory_write_first(d, wallet_id, history_id, destination_id) ==
    LET s == NewSession(d)
        moved == [d EXCEPT !.h[history_id].wallet_id = destination_id]
    IN  IF ~select_history(s, wallet_id, history_id)
        THEN Outcome(d, NotFound(s, "history", history_id))
        ELSE IF destination_id \notin DOMAIN d.w
             THEN Outcome(moved, NotFound(s, "wallet", wallet_id))
             ELSE Outcome(moved, Return(s, HistoryEntity(NewSession(moved), history_id)))

\* MoveHistory.execute without the check of the destination wallet, in a
\* block that commits
MoveHistory_unchecked(d, wallet_id, history_id, destination_id) ==
    LET s == NewSession(d)
        moved == [d EXCEPT !.h[history_id].wallet_id = destination_id]
    IN  IF ~select_history(s, wallet_id, history_id)
        THEN Outcome(d, NotFound(s, "history", history_id))
        ELSE Outcome(moved, Return(s, HistoryEntity(NewSession(moved), history_id)))

\* MoveHistory.execute
MoveHistory_execute(d, wallet_id, history_id, destination_id) ==
    LET s == NewSession(d)
        history == get_history_by_id(s, wallet_id, history_id)
        wallet == get_by_id(history.s, destination_id)
        moved == [history.ret[1] EXCEPT !.wallet_id = wallet.ret[1].wallet_id]
        updated == update_history(wallet.s, wallet_id, moved)
        body == IF history.exc # "none" THEN history
                ELSE IF history.ret = <<>> THEN NotFound(s, "history", history_id)
                ELSE IF wallet.exc # "none" THEN wallet
                ELSE IF wallet.ret = <<>> THEN NotFound(s, "wallet", wallet_id)
                ELSE IF updated.exc # "none" THEN updated
                ELSE Return(updated.s, moved)
    IN  async_with(self_session, d, body)

----------------------------------------------------------------------------
(* Wallet use cases: api/wallets/use_case.py, as the specification gives them: *)
(* thin wrappers of the repository, each in one transaction scope that commits *)
(* on return and rolls back on a failure.                                      *)

ListWallets_execute(d) ==
    async_with(begin(self_session), d, get_all(NewSession(d)))

GetWallet_execute(d, wallet_id) ==
    LET s == NewSession(d)
        wallet == get_by_id(s, wallet_id)
        body == IF wallet.exc # "none" THEN wallet
                ELSE IF wallet.ret = <<>> THEN NotFound(s, "wallet", wallet_id)
                ELSE wallet
    IN  async_with(begin(self_session), d, body)

CreateWallet_execute(d, name) ==
    async_with(begin(self_session), d, add(NewSession(d), name))

UpdateWallet_execute(d, wallet_id, name) ==
    LET s == NewSession(d)
        wallet == get_by_id(s, wallet_id)
        body == IF wallet.exc # "none" THEN wallet
                ELSE IF wallet.ret = <<>> THEN NotFound(s, "wallet", wallet_id)
                ELSE update(wallet.s, [wallet.ret[1] EXCEPT !.name = name])
    IN  async_with(begin(self_session), d, body)

DeleteWallet_execute(d, wallet_id) ==
    LET s == NewSession(d)
        wallet == get_by_id(s, wallet_id)
        body == IF wallet.exc # "none" THEN wallet
                ELSE IF wallet.ret = <<>> THEN ReturnNone(s)
                ELSE delete(wallet.s, wallet.ret[1])
    IN  async_with(begin(self_session), d, body)

----------------------------------------------------------------------------
(* The state machine *)

NoTables == [w |-> <<>>, h |-> <<>>]
Closed == [open |-> FALSE, s |-> NewSession(NoTables)]

\* Arguments of an operation (0 or "" where it has none)
Args(wallet_id, history_id, destination_id, name, amount, type, history_at) ==
    [wallet_id |-> wallet_id, history_id |-> history_id,
     destination_id |-> destination_id, name |-> name, amount |-> amount,
     type |-> type, history_at |-> history_at]

Op(op, a, o) ==
    [op |-> op, a |-> a, exc |-> o.exc, res |-> o.res, rid |-> o.rid, ret |-> o.ret]

\* database.db holds whatever earlier runs left in it: create_database_if_not_exist
\* creates the tables only when they are missing.  Its rows meet the schema:
\* amount > 0, wallet_id of an existing wallet.
WalletTables == UNION {[S -> {"a"}] : S \in SUBSET WalletIds}

\* The rows history i may be: amount i at time i, an income for odd i and an
\* outcome for even i, in any wallet
HistoryRows(i, W) ==
    [name : {"a"}, amount : {i}, type : {IF i % 2 = 1 THEN "INCOME" ELSE "OUTCOME"},
     wallet_id : W, history_at : {i}]

HistoryTables(W) ==
    UNION {{h \in [S -> UNION {HistoryRows(i, W) : i \in S}] :
               \A i \in S : h[i] \in HistoryRows(i, W)}
           : S \in SUBSET HistoryIds}

Start == Op("start", Args(0, 0, 0, "", 0, "", 0), ReturnNone(NewSession(NoTables)))

Init ==
    /\ \E w \in WalletTables : \E h \in HistoryTables(DOMAIN w) : db = [w |-> w, h |-> h]
    /\ pre = db
    /\ sess = Closed
    /\ last = Start

\* A use case runs as one request in a scope of its own
UseCase(op, a, o) ==
    /\ ~sess.open
    /\ db' = o.db
    /\ pre' = db
    /\ last' = Op(op, a, o)
    /\ sess' = [sess EXCEPT !.open = o.open]

ListHistories ==
    \E w \in WalletIds :
        UseCase("ListHistories", Args(w, 0, 0, "", 0, "", 0), ListHistories_execute(db, w))

GetHistory ==
    \E w \in WalletIds, h \in HistoryIds :
        UseCase("GetHistory", Args(w, h, 0, "", 0, "", 0), GetHistory_execute(db, w, h))

CreateHistory ==
    \E w \in WalletIds, x \in HistoryInputs :
        UseCase("CreateHistory", Args(w, 0, 0, x.name, x.amount, x.type, x.history_at),
                CreateHistory_execute(db, w, x.name, x.amount, x.type, x.history_at))

UpdateHistory ==
    \E w \in WalletIds, h \in HistoryIds, x \in RepoInputs :
        UseCase("UpdateHistory", Args(w, h, 0, x.name, x.amount, x.type, x.history_at),
                UpdateHistory_excute(db, w, h, x.name, x.amount, x.type, x.history_at))

DeleteHistory ==
    \E w \in WalletIds, h \in HistoryIds :
        UseCase("DeleteHistory", Args(w, h, 0, "", 0, "", 0), DeleteHistory_excute(db, w, h))

MoveHistory ==
    \E w \in WalletIds, h \in HistoryIds, dst \in WalletIds :
        UseCase("MoveHistory", Args(w, h, dst, "", 0, "", 0),
                MoveHistory_execute(db, w, h, dst))

ListWallets ==
    UseCase("ListWallets", Args(0, 0, 0, "", 0, "", 0), ListWallets_execute(db))

GetWallet ==
    \E w \in WalletIds :
        UseCase("GetWallet", Args(w, 0, 0, "", 0, "", 0), GetWallet_execute(db, w))

CreateWallet ==
    \E n \in Names :
        UseCase("CreateWallet", Args(0, 0, 0, n, 0, "", 0), CreateWallet_execute(db, n))

UpdateWallet ==
    \E w \in WalletIds, n \in Names :
        UseCase("UpdateWallet", Args(w, 0, 0, n, 0, "", 0), UpdateWallet_execute(db, w, n))

DeleteWallet ==
    \E w \in WalletIds :
        UseCase("DeleteWallet", Args(w, 0, 0, "", 0, "", 0), DeleteWallet_execute(db, w))

----------------------------------------------------------------------------
(* The repository under a transaction of its caller: the caller begins a       *)
(* transaction (AsyncSessionLocal.begin()), calls repository methods in it and *)
(* leaves the block: a commit, or a rollback when a call raised.               *)

Repo_begin ==
    /\ ~sess.open
    /\ sess' = [open |-> TRUE, s |-> NewSession(db)]
    /\ pre' = db
    /\ last' = Op("begin", Args(0, 0, 0, "", 0, "", 0), ReturnNone(NewSession(NoTables)))
    /\ UNCHANGED db

\* A repository call and its outcome, with the session before and after it
RepoOp(op, a, s, r) ==
    [op |-> op, a |-> a, exc |-> r.exc, res |-> r.res, rid |-> r.rid, ret |-> r.ret,
     before |-> s, after |-> r.s]

\* One repository call in the open transaction; r is the session after it and
\* its outcome.  An exception leaves the block, which rolls back.
RepoCall(op, a, r) ==
    /\ sess.open
    /\ sess' = IF r.exc = "none" THEN [open |-> TRUE, s |-> r.s] ELSE Closed
    /\ pre' = db
    /\ last' = RepoOp(op, a, sess.s, r)
    /\ UNCHANGED db

Repo_add ==
    \E n \in Names :
        RepoCall("add", Args(0, 0, 0, n, 0, "", 0), add(sess.s, n))

Repo_get_by_id ==
    \E w \in WalletIds :
        RepoCall("get_by_id", Args(w, 0, 0, "", 0, "", 0), get_by_id(sess.s, w))

Repo_get_all ==
    RepoCall("get_all", Args(0, 0, 0, "", 0, "", 0), get_all(sess.s))

Repo_add_history ==
    \E w \in WalletIds, x \in RepoInputs :
        RepoCall("add_history", Args(w, 0, 0, x.name, x.amount, x.type, x.history_at),
                 add_history(sess.s, w, x.name, x.amount, x.type, x.history_at))

Repo_update ==
    \E w \in WalletIds, n \in Names :
        RepoCall("update", Args(w, 0, 0, n, 0, "", 0), update(sess.s, Wallet(w, n, <<>>)))

Repo_delete ==
    \E w \in WalletIds :
        RepoCall("delete", Args(w, 0, 0, "", 0, "", 0), delete(sess.s, Wallet(w, "a", <<>>)))

Repo_get_history_by_id ==
    \E w \in WalletIds, h \in HistoryIds :
        RepoCall("get_history_by_id", Args(w, h, 0, "", 0, "", 0),
                 get_history_by_id(sess.s, w, h))

\* The History values update_history is given for wallet w: new fields with the
\* wallet kept, and a good amount with the wallet changed to the next id
HistoryUpdates(w) ==
    {[x |-> x, dst |-> w] : x \in RepoInputs}
    \cup {[x |-> x, dst |-> (w % MaxWallets) + 1] : x \in {y \in RepoInputs : y.amount > 0}}

Repo_update_history ==
    \E w \in WalletIds, h \in HistoryIds :
        \E u \in HistoryUpdates(w) :
            RepoCall("update_history",
                     Args(w, h, u.dst, u.x.name, u.x.amount, u.x.type, u.x.history_at),
                     update_history(sess.s, w,
                         History(h, u.x.name, u.x.amount, u.x.type, u.x.history_at, u.dst)))

Repo_delete_history ==
    \E w \in WalletIds, h \in HistoryIds :
        RepoCall("delete_history", Args(w, h, 0, "", 0, "", 0),
                 delete_history(sess.s, w, History(h, "a", 1, "INCOME", 1, w)))

\* The block ends normally: commit writes the pending deletes
Repo_commit ==
    /\ sess.open
    /\ db' = Tables(flush(sess.s))
    /\ pre' = db
    /\ sess' = Closed
    /\ last' = [op |-> "commit", a |-> Args(0, 0, 0, "", 0, "", 0), exc |-> "none",
                res |-> "", rid |-> 0, ret |-> <<>>,
                delW |-> sess.s.delW, delH |-> sess.s.delH]

Next ==
    \/ ListHistories
    \/ GetHistory
    \/ CreateHistory
    \/ UpdateHistory
    \/ DeleteHistory
    \/ MoveHistory
    \/ ListWallets
    \/ GetWallet
    \/ CreateWallet
    \/ UpdateWallet
    \/ DeleteWallet
    \/ Repo_begin
    \/ Repo_add
    \/ Repo_get_by_id
    \/ Repo_get_all
    \/ Repo_add_history
    \/ Repo_update
    \/ Repo_delete
    \/ Repo_get_history_by_id
    \/ Repo_update_history
    \/ Repo_delete_history
    \/ Repo_commit

Spec == Init /\ [][Next]_vars

----------------------------------------------------------------------------
(* Wallet.balance on its own: a wallet entity built from any list of histories *)

BalanceAmounts == {1, 30, 100}

HistoryLists ==
    UNION {[1..n -> {History(1, "a", am, t, 1, 1) : am \in BalanceAmounts, t \in HistoryType}]
           : n \in 0..MaxLen}

BalanceInit ==
    /\ db = NoTables
    /\ pre = NoTables
    /\ sess = Closed
    /\ last = Start

Balance ==
    \E hs \in HistoryLists :
        /\ last' = [op |-> "balance", hs |-> hs, ret |-> <<balance(Wallet(1, "a", hs).histories)>>]
        /\ UNCHANGED <<db, pre, sess>>

BalanceSpec == BalanceInit /\ [][Balance]_vars

----------------------------------------------------------------------------
(* Concurrent requests: two requests run at once, each repository call (and    *)
(* the entry and the exit of a block) one atomic step.  Here sess maps each    *)
(* request slot to its process.  A session reads the committed tables as they  *)
(* are when it reads; once it has flushed a write it holds SQLite's write lock *)
(* until its block is left, and no other session writes meanwhile.             *)

Procs == {1, 2}

NoArgs == Args(0, 0, 0, "", 0, "", 0)

Idle ==
    [op |-> "", pc |-> "idle", a |-> NoArgs, x |-> <<>>,
     s |-> NewSession(NoTables), lock |-> FALSE]

\* What the session of process pr sees of the committed tables d
View(pr, d) ==
    IF pr.lock THEN pr.s
    ELSE [w |-> d.w, h |-> d.h, delW |-> pr.s.delW, delH |-> pr.s.delH]

\* The process goes on to pc after a call with outcome r, keeping x
Continue(pr, d, pc, x, r) ==
    [pr |-> [pr EXCEPT !.pc = pc, !.x = x, !.s = r.s,
                       !.lock = @ \/ Tables(r.s) # Tables(View(pr, d))],
     db |-> d, exc |-> "none", res |-> "", rid |-> 0, ret |-> <<>>,
     writes |-> Tables(r.s) # Tables(View(pr, d))]

\* The block is left with outcome o (its tables committed or rolled back)
Finish(d, o) ==
    [pr |-> Idle, db |-> o.db, exc |-> o.exc, res |-> o.res, rid |-> o.rid,
     ret |-> o.ret, writes |-> o.db # d]

\* The types `async with` accepts
ContextManagers == {"AsyncSession", "AsyncSessionTransaction"}

\* MoveHistory.execute, step by step, in a block that is entered and that
\* commits, with the rows read as entities
MoveHistory_step_in_transaction(pr, d) ==
    LET v == View(pr, d)
        a == pr.a
    IN  IF pr.pc = "enter"
        THEN Continue(pr, d, "get_history_by_id", <<>>, ReturnNone(v))
        ELSE IF pr.pc = "get_history_by_id"
        THEN IF ~select_history(v, a.wallet_id, a.history_id)
             THEN Finish(d, Outcome(d, NotFound(v, "history", a.history_id)))
             ELSE Continue(pr, d, "get_by_id", <<HistoryEntity(v, a.history_id)>>,
                           ReturnNone(v))
        ELSE IF pr.pc = "get_by_id"
        THEN IF a.destination_id \notin DOMAIN v.w
             THEN Finish(d, Outcome(d, NotFound(v, "wallet", a.wallet_id)))
             ELSE Continue(pr, d, "update_history",
                           <<[pr.x[1] EXCEPT !.wallet_id = a.destination_id]>>,
                           ReturnNone(v))
        ELSE IF pr.pc = "update_history"
        THEN IF ~select_history(v, a.wallet_id, a.history_id)
             THEN Finish(d, Outcome(d, Raise(v, "AppException")))
             ELSE Continue(pr, d, "exit", pr.x,
                      ReturnNone(flush([v EXCEPT !.h[a.history_id] =
                                           HistoryORM_update(@, pr.x[1])])))
        ELSE Finish(d, Outcome(Tables(flush(v)), Return(v, pr.x[1])))

\* MoveHistory.execute, step by step: the entry of `async with self.session`,
\* get_history_by_id, get_by_id, update_history, the exit of the block
MoveHistory_step(pr, d) ==
    LET v == View(pr, d)
        a == pr.a
    IN  IF pr.pc = "enter"
        THEN IF self_session \in ContextManagers
             THEN Continue(pr, d, "get_history_by_id", <<>>, ReturnNone(v))
             ELSE Finish(d, async_with(self_session, d, ReturnNone(v)))
        ELSE IF pr.pc = "get_history_by_id"
        THEN LET history == get_history_by_id(v, a.wallet_id, a.history_id)
             IN  IF history.exc # "none" THEN Finish(d, Outcome(d, history))
                 ELSE IF history.ret = <<>>
                      THEN Finish(d, Outcome(d, NotFound(v, "history", a.history_id)))
                 ELSE Continue(pr, d, "get_by_id", history.ret, history)
        ELSE IF pr.pc = "get_by_id"
        THEN LET wallet == get_by_id(v, a.destination_id)
             IN  IF wallet.exc # "none" THEN Finish(d, Outcome(d, wallet))
                 ELSE IF wallet.ret = <<>>
                      THEN Finish(d, Outcome(d, NotFound(v, "wallet", a.wallet_id)))
                 ELSE Continue(pr, d, "update_history",
                          <<[pr.x[1] EXCEPT !.wallet_id = wallet.ret[1].wallet_id]>>,
                          wallet)
        ELSE IF pr.pc = "update_history"
        THEN LET updated == update_history(v, a.wallet_id, pr.x[1])
             IN  IF updated.exc # "none" THEN Finish(d, Outcome(d, updated))
                 ELSE Continue(pr, d, "exit", pr.x, updated)
        ELSE Finish(d, async_with(self_session, d, Return(v, pr.x[1])))

\* A request that deletes a wallet, step by step, in a block that commits:
\* DeleteWallet (begin, get_by_id, delete, commit) and a caller of the
\* repository's delete (begin, delete, commit)
Transaction_step(pr, d) ==
    LET v == View(pr, d)
        a == pr.a
    IN  IF pr.pc = "begin"
        THEN IF begin(self_session) \in ContextManagers
             THEN Continue(pr, d, IF pr.op = "DeleteWallet" THEN "get_by_id" ELSE "delete",
                           <<>>, ReturnNone(v))
             ELSE Finish(d, async_with(begin(self_session), d, ReturnNone(v)))
        ELSE IF pr.pc = "get_by_id"
        THEN LET wallet == get_by_id(v, a.wallet_id)
             IN  IF wallet.exc # "none" THEN Finish(d, Outcome(d, wallet))
                 ELSE IF wallet.ret = <<>>
                      THEN Finish(d, async_with(begin(self_session), d, ReturnNone(v)))
                 ELSE Continue(pr, d, "delete", wallet.ret, wallet)
        ELSE IF pr.pc = "delete"
        THEN Continue(pr, d, "commit", pr.x, delete(v, Wallet(a.wallet_id, "a", <<>>)))
        ELSE Finish(d, async_with(begin(self_session), d, ReturnNone(v)))

ConcurrentInit ==
    /\ \E w \in WalletTables : \E h \in HistoryTables(DOMAIN w) : db = [w |-> w, h |-> h]
    /\ pre = db
    /\ sess = [p \in Procs |-> Idle]
    /\ last = [op |-> "start", exc |-> "none", p |-> 0, pc |-> "idle"]

\* A request arrives at the idle process p
Invoke(p, op, a, pc) ==
    /\ sess[p].pc = "idle"
    /\ sess' = [sess EXCEPT ![p] = [Idle EXCEPT !.op = op, !.pc = pc, !.a = a]]
    /\ last' = [op |-> op, exc |-> "none", p |-> p, pc |-> "idle"]
    /\ pre' = db
    /\ UNCHANGED db

Invoke_MoveHistory ==
    \E p \in Procs, w \in WalletIds, h \in HistoryIds, dst \in WalletIds :
        Invoke(p, "MoveHistory", Args(w, h, dst, "", 0, "", 0), "enter")

Invoke_DeleteWallet ==
    \E p \in Procs, w \in WalletIds :
        Invoke(p, "DeleteWallet", Args(w, 0, 0, "", 0, "", 0), "begin")

Invoke_delete ==
    \E p \in Procs, w \in WalletIds :
        Invoke(p, "delete", Args(w, 0, 0, "", 0, "", 0), "begin")

\* Process p takes its next step; a step that writes waits for the write lock
Step ==
    \E p \in Procs :
        /\ sess[p].pc # "idle"
        /\ LET o == IF sess[p].op = "MoveHistory" THEN MoveHistory_step(sess[p], db)
                    ELSE Transaction_step(sess[p], db)
           IN  /\ o.writes => \A q \in Procs \ {p} : ~sess[q].lock
               /\ db' = o.db
               /\ sess' = [sess EXCEPT ![p] = o.pr]
               /\ last' = [op |-> sess[p].op, exc |-> o.exc, p |-> p, pc |-> sess[p].pc]
        /\ pre' = db

ConcurrentNext ==
    \/ Invoke_MoveHistory
    \/ Invoke_DeleteWallet
    \/ Invoke_delete
    \/ Step

ConcurrentSpec == ConcurrentInit /\ [][ConcurrentNext]_vars

----------------------------------------------------------------------------
(* Properties *)

\* History history_id is stored in wallet wallet_id of tables d
Owned(d, wallet_id, history_id) ==
    /\ history_id \in DOMAIN d.h
    /\ d.h[history_id].wallet_id = wallet_id

MoveOfOwned ==
    /\ last.op = "MoveHistory"
    /\ Owned(pre, last.a.wallet_id, last.a.history_id)

\* C1: after MoveHistory(sourceW, H.id, destW) of a history H of sourceW to an
\* existing wallet destW, H is found in destW, and no longer in sourceW unless
\* the two are the same wallet.
C1_MoveReassignsOwner ==
    (MoveOfOwned /\ last.a.destination_id \in DOMAIN pre.w)
    => /\ Owned(db, last.a.destination_id, last.a.history_id)
       /\ last.a.wallet_id # last.a.destination_id
              => ~Owned(db, last.a.wallet_id, last.a.history_id)

\* C2: MoveHistory of a history H of sourceW to a wallet that does not exist
\* fails and leaves the stored tables exactly as they were: H is still in
\* sourceW with every field unchanged.
C2_MoveToMissingWalletChangesNothing ==
    (MoveOfOwned /\ last.a.destination_id \notin DOMAIN pre.w)
    => /\ last.exc # "none"
       /\ db = pre
       /\ Owned(db, last.a.wallet_id, last.a.history_id)

C2_Witness ==
    /\ MoveOfOwned
    /\ last.a.destination_id \notin DOMAIN pre.w
    /\ last.exc # "none"

\* C3: in every reachable state every stored history has the wallet_id of a
\* wallet that exists (wallet ids are keys, so of exactly one).
C3_EveryHistoryHasItsWallet ==
    \A h \in DOMAIN db.h : db.h[h].wallet_id \in DOMAIN db.w

\* a use case was asked to move a stored history to another existing wallet
C3_Witness ==
    /\ MoveOfOwned
    /\ last.a.destination_id \in DOMAIN pre.w \ {last.a.wallet_id}
    /\ DOMAIN db.h # {}

\* C4 as first stated: right after delete(W) of an existing wallet W, every
\* history W owned is not found by get_history_by_id(W.id, H.id).
C4_DeleteThenLookupNotFound ==
    (last.op = "delete" /\ last.a.wallet_id \in DOMAIN pre.w)
    => \A h \in DOMAIN pre.h :
           pre.h[h].wallet_id = last.a.wallet_id
           => /\ sess.open
              /\ get_history_by_id(sess.s, last.a.wallet_id, h).exc = "none"
              /\ get_history_by_id(sess.s, last.a.wallet_id, h).ret = <<>>

\* C4: once the transaction in which delete(W) ran for an existing wallet W is
\* committed, no history with wallet_id = W.id is stored, get_history_by_id
\* (W.id, H.id) returns None for every history H that W owned, and the
\* histories of the wallets not deleted are untouched (but for those the
\* transaction deleted itself with delete_history).
C4_DeleteWalletCommitted ==
    last.op = "commit"
    => \A W \in last.delW :
           /\ \A h \in DOMAIN db.h : db.h[h].wallet_id # W
           /\ \A h \in DOMAIN pre.h :
                  pre.h[h].wallet_id = W
                  => get_history_by_id(NewSession(db), W, h) = ReturnNone(NewSession(db))
           /\ \A h \in DOMAIN pre.h :
                  (pre.h[h].wallet_id \notin last.delW /\ h \notin last.delH)
                  => (h \in DOMAIN db.h /\ db.h[h] = pre.h[h])

\* a wallet with a history was deleted and committed while another wallet
\* kept a history
C4_Witness ==
    /\ last.op = "commit"
    /\ \E W \in last.delW : \E h \in DOMAIN pre.h : pre.h[h].wallet_id = W
    /\ \E h \in DOMAIN pre.h : pre.h[h].wallet_id \notin last.delW /\ h \in DOMAIN db.h

\* C5: add(n) succeeds and returns a wallet with a fresh wallet_id, and
\* get_by_id of that id right afterwards returns a wallet named n with no
\* histories.
C5_AddThenGetById ==
    last.op = "add"
    => /\ last.exc = "none"
       /\ sess.open
       /\ last.ret[1].wallet_id \notin DOMAIN pre.w
       /\ get_by_id(sess.s, last.ret[1].wallet_id).ret
              = <<Wallet(last.ret[1].wallet_id, last.a.name, <<>>)>>

\* C6: every stored history has amount > 0; add_history, update_history and
\* the use cases with amount <= 0 fail and leave the stored histories as they
\* were, and the repository calls on a row that exists are refused by the
\* storage's check (IntegrityError), their transaction rolled back.
C6_AmountsPositive ==
    /\ \A h \in DOMAIN db.h : db.h[h].amount > 0
    /\ sess.open => \A h \in DOMAIN sess.s.h : sess.s.h[h].amount > 0
    /\ (/\ last.op \in {"add_history", "update_history", "CreateHistory", "UpdateHistory"}
        /\ last.a.amount <= 0)
       => (last.exc # "none" /\ db.h = pre.h)
    /\ (/\ last.op = "add_history"
        /\ last.a.amount <= 0
        /\ last.a.wallet_id \in DOMAIN pre.w)
       => (last.exc = "IntegrityError" /\ ~sess.open)
    /\ (/\ last.op = "update_history"
        /\ last.a.amount <= 0
        /\ Owned(pre, last.a.wallet_id, last.a.history_id))
       => (last.exc = "IntegrityError" /\ ~sess.open)

\* update_history with amount <= 0 on a stored history was refused
C6_Witness ==
    /\ last.op = "update_history"
    /\ last.a.amount <= 0
    /\ Owned(pre, last.a.wallet_id, last.a.history_id)
    /\ last.exc = "IntegrityError"

\* C7: CreateHistory on an existing wallet with amount > 0 succeeds and stores
\* exactly one new history, of that wallet and with the given name, amount,
\* type and history_at; on a wallet that does not exist it fails with
\* NotFound("wallet") and stores nothing.
C7_CreateHistoryStoresOne ==
    last.op = "CreateHistory"
    => IF last.a.wallet_id \in DOMAIN pre.w
       THEN last.a.amount > 0
            => /\ last.exc = "none"
               /\ \E h \in DOMAIN db.h \ DOMAIN pre.h :
                      /\ DOMAIN db.h = DOMAIN pre.h \cup {h}
                      /\ db.h[h] = [name |-> last.a.name, amount |-> last.a.amount,
                                    type |-> last.a.type, wallet_id |-> last.a.wallet_id,
                                    history_at |-> last.a.history_at]
               /\ \A k \in DOMAIN pre.h : db.h[k] = pre.h[k]
       ELSE /\ last.exc = "NotFound"
            /\ last.res = "wallet"
            /\ db = pre

\* The balance a later request reads for wallet w from the committed tables d
BalanceOf(d, w) == balance(histories_of(NewSession(d), w))

\* C8: what a use case did is committed and seen by the requests after it:
\* after CreateHistory of an income (outcome) of amount a > 0 on an existing
\* wallet, the balance read for the wallet is a more (less) than before.
C8_CreatedHistoryShowsInBalance ==
    (/\ last.op = "CreateHistory"
     /\ last.a.wallet_id \in DOMAIN pre.w
     /\ last.a.amount > 0)
    => BalanceOf(db, last.a.wallet_id)
           = BalanceOf(pre, last.a.wallet_id)
             + (IF last.a.type = "INCOME" THEN last.a.amount ELSE 0 - last.a.amount)

\* The sum of the amounts of the first n histories of hs that have type t
RECURSIVE SumOfType(_, _, _)
SumOfType(hs, t, n) ==
    IF n = 0 THEN 0
    ELSE SumOfType(hs, t, n - 1) + (IF hs[n].type = t THEN hs[n].amount ELSE 0)

\* C9: Wallet.balance is the sum of the amounts of the INCOME histories less
\* the sum of the amounts of the OUTCOME histories (0 for no histories).
C9_BalanceIsIncomeLessOutcome ==
    last.op = "balance"
    => last.ret = <<SumOfType(last.hs, "INCOME", Len(last.hs))
                    - SumOfType(last.hs, "OUTCOME", Len(last.hs))>>

\* [(INCOME, 100), (OUTCOME, 30)] gives 70
C9_Witness ==
    /\ last.op = "balance"
    /\ Len(last.hs) = 2
    /\ last.hs[1].type = "INCOME" /\ last.hs[1].amount = 100
    /\ last.hs[2].type = "OUTCOME" /\ last.hs[2].amount = 30
    /\ last.ret = <<70>>

\* C10: DeleteHistory(walletID, historyID) of a history that is not stored in
\* that wallet succeeds without error and changes nothing.
C10_DeleteHistoryOfAbsentSucceeds ==
    (last.op = "DeleteHistory" /\ ~Owned(pre, last.a.wallet_id, last.a.history_id))
    => (last.exc = "none" /\ db = pre)

\* History last.a.history_id is stored in tables d, in another wallet than
\* last.a.wallet_id
OfAnotherWallet(d) ==
    /\ last.a.history_id \in DOMAIN d.h
    /\ d.h[last.a.history_id].wallet_id # last.a.wallet_id

\* C11: a history H is reached only through its own wallet: for w # H.wallet_id
\* get_history_by_id(w, H.id) returns None, update_history and delete_history
\* with (w, H) leave the session as it was, and GetHistory, UpdateHistory,
\* DeleteHistory and MoveHistory with (w, H.id) return no history and leave H
\* stored as it was.
C11_HistoryAccessScopedByOwner ==
    /\ (last.op = "get_history_by_id" /\ OfAnotherWallet(last.before))
       => (last.exc = "none" /\ last.ret = <<>> /\ last.after = last.before)
    /\ (last.op \in {"update_history", "delete_history"} /\ OfAnotherWallet(last.before))
       => (last.ret = <<>> /\ last.after = last.before)
    /\ (/\ last.op \in {"GetHistory", "UpdateHistory", "DeleteHistory", "MoveHistory"}
        /\ OfAnotherWallet(pre))
       => /\ last.ret = <<>>
          /\ last.a.history_id \in DOMAIN db.h
          /\ db.h[last.a.history_id] = pre.h[last.a.history_id]

\* a stored history was looked up through a wallet that exists and is not its own
C11_Witness ==
    /\ last.op = "get_history_by_id"
    /\ OfAnotherWallet(last.before)
    /\ last.a.wallet_id \in DOMAIN last.before.w
    /\ last.ret = <<>>

UseCases ==
    {"ListHistories", "GetHistory", "CreateHistory", "UpdateHistory", "DeleteHistory",
     "MoveHistory", "ListWallets", "GetWallet", "CreateWallet", "UpdateWallet",
     "DeleteWallet"}

C13_MoveChangesOnlyTheWallet ==
    /\ (MoveOfOwned /\ last.exc = "none")
       => /\ db.w = pre.w
          /\ db.h = [pre.h EXCEPT ![last.a.history_id].wallet_id = last.a.destination_id]
    /\ (MoveOfOwned /\ last.a.destination_id = last.a.wallet_id)
       => /\ last.exc = "none"
          /\ last.ret = <<HistoryEntity(NewSession(pre), last.a.history_id)>>
          /\ db = pre

\* C14: a use case that fails for a missing entity fails with NotFound of the
\* kind and id looked up: ListHistories NotFound("wallet", wallet_id),
\* GetHistory NotFound("history", history_id), MoveHistory NotFound("history",
\* history_id) when the history is not in the source wallet, whatever the
\* destination, and NotFound("wallet", destination_id) when the history is
\* there and the destination wallet is not.
C14_NotFoundNamesTheMissingEntity ==
    /\ (last.op = "ListHistories" /\ last.a.wallet_id \notin DOMAIN pre.w)
       => (last.exc = "NotFound" /\ last.res = "wallet" /\ last.rid = last.a.wallet_id)
    /\ (/\ last.op \in {"GetHistory", "MoveHistory"}
        /\ ~Owned(pre, last.a.wallet_id, last.a.history_id))
       => (last.exc = "NotFound" /\ last.res = "history" /\ last.rid = last.a.history_id)
    /\ (MoveOfOwned /\ last.a.destination_id \notin DOMAIN pre.w)
       => /\ last.exc = "NotFound"
          /\ last.res = "wallet"
          /\ last.rid = last.a.destination_id

\* C15: update(wallet) on a wallet that exists writes its name and nothing
\* else: the histories, its own and the others', and the other wallets are what
\* the flush of the session before the call leaves, whatever histories the
\* given Wallet value lists; nothing is committed by it.
C15_UpdateChangesOnlyTheName ==
    (last.op = "update" /\ last.a.wallet_id \in DOMAIN last.before.w)
    => LET b == flush(last.before)
       IN  /\ last.after.h = b.h
           /\ DOMAIN last.after.w = DOMAIN b.w
           /\ \A w \in DOMAIN b.w :
                  last.after.w[w] = IF w = last.a.wallet_id THEN last.a.name ELSE b.w[w]
           /\ db = pre

\* a wallet with a history was renamed by update given a Wallet value that
\* lists no history
C15_Witness ==
    /\ last.op = "update"
    /\ last.a.wallet_id \in DOMAIN last.after.w
    /\ last.before.w[last.a.wallet_id] # last.a.name
    /\ last.after.w[last.a.wallet_id] = last.a.name
    /\ \E h \in DOMAIN last.after.h : last.after.h[h].wallet_id = last.a.wallet_id

\* The entity the repository call last.op needs is not in the session it
\* was given
EntityMissing ==
    \/ /\ last.op \in {"add_history", "update"}
       /\ last.a.wallet_id \notin DOMAIN last.before.w
    \/ /\ last.op = "update_history"
       /\ ~Owned(last.before, last.a.wallet_id, last.a.history_id)

\* C16: add_history and update on a wallet that is missing, and update_history
\* on a history that is missing from the wallet, raise AppException, the
\* generic failure, not NotFound, and change nothing in the session or in the
\* committed tables.
C16_MissingEntityIsGenericFailure ==
    EntityMissing
    => /\ last.exc = "AppException"
       /\ last.res = ""
       /\ last.after = last.before
       /\ db = pre

\* update_history was called for a history that is missing while another is stored
C16_Witness ==
    /\ last.op = "update_history"
    /\ EntityMissing
    /\ DOMAIN last.before.h # {}
    /\ last.exc = "AppException"

\* C17: UpdateHistory of a history stored in the wallet writes the given name,
\* amount (> 0), type and history_at to it and leaves its history_id and
\* wallet_id and every other row as they were; of a history that is not in
\* the wallet it fails with NotFound("history") and changes nothing.
C17_UpdateHistoryOverwritesFields ==
    last.op = "UpdateHistory"
    => IF Owned(pre, last.a.wallet_id, last.a.history_id)
       THEN last.a.amount > 0
            => /\ last.exc = "none"
               /\ db.w = pre.w
               /\ db.h = [pre.h EXCEPT ![last.a.history_id] =
                              [name |-> last.a.name, amount |-> last.a.amount,
                               type |-> last.a.type, wallet_id |-> last.a.wallet_id,
                               history_at |-> last.a.history_at]]
       ELSE /\ last.exc = "NotFound"
            /\ last.res = "history"
            /\ db = pre

\* The history_at of the histories hs do not increase along the list
RECURSIVE Descending(_)
Descending(hs) ==
    \/ Len(hs) < 2
    \/ hs[1].history_at >= hs[2].history_at /\ Descending(Tail(hs))

MovedAmount == SignedAmount(pre.h[last.a.history_id])

\* The sum of the balances of the wallets ws read from the committed tables d
RECURSIVE TotalBalance(_, _)
TotalBalance(d, ws) ==
    IF ws = {} THEN 0
    ELSE LET w == CHOOSE w \in ws : TRUE
         IN  BalanceOf(d, w) + TotalBalance(d, ws \ {w})

====
